---- MODULE Spec2Model ----
(***************************************************************************)
(* Model of src/src/fargate.py: the Fargate tier catalog (RESOURCES), the  *)
(* minimal covering tier selection (get_resource), the alternate lower     *)
(* tier heuristic (get_alt_tier_resource) and the daily cost               *)
(* (get_cost_per_day).                                                     *)
(*                                                                         *)
(* Numbers.  The code works on Python floats.  Every cpu and memory value  *)
(* of the model is the float multiplied by Scale (hundredths of a vCPU or  *)
(* of a GB).  All catalog values and all requested memories of the model   *)
(* are multiples of 0.25, which binary floating point represents exactly,  *)
(* so the comparisons and the subtraction of get_alt_tier_resource are     *)
(* exact in the code and the scaled integers decide them the same way; the *)
(* one requested cpu that is no multiple of 0.25 (0.1) is only compared    *)
(* with catalog values, none of which it is close to.  Prices              *)
(* are kept in units of 10^-5 dollar, so a cost is in units of 10^-7       *)
(* dollar per day; the cost differences the model compares are at least    *)
(* 10^-2 dollar, far above the rounding error of the float expression.     *)
(***************************************************************************)
EXTENDS Integers, Sequences, FiniteSets, TLC

VARIABLES
    RESOURCES,   \* the module-level list RESOURCES (fargate.py:53)
    prices,      \* the two module-level price constants (fargate.py:69-70)
    call,        \* the call last made into the module, with what it returned
    log          \* the calls made before it, oldest first

vars == <<RESOURCES, prices, call, log>>

----------------------------------------------------------------------------
(* Bounds of the model *)

\* Requested cpu ranges over k * CPU_MEMORY_STEP for k in 1..MaxCpuReq (0.25
\* to 4.5), and over 0.1, the two largest bands and the step above each.
MaxCpuReq == 18
\* Requested memory ranges over k * CPU_MEMORY_STEP for k in 1..MaxMemReq
\* (0.25 to 120.25).
MaxMemReq == 481
\* SpecSeq follows sequences of MaxCalls + 1 calls.
MaxCalls == 2

----------------------------------------------------------------------------
(* Constants of fargate.py *)

\* One unit of a float in the model: 1.0 is Scale.
Scale == 100

CPU_MAX == 16 * Scale
MEMORY_MAX == 120 * Scale
\* 0.25
CPU_MEMORY_STEP == Scale \div 4

\* 0.05056 and 0.00553 dollar, in units of 10^-5 dollar.
PER_VCPU_COST_PER_HOUR == 5056
PER_GB_COST_PER_HOUR == 553

----------------------------------------------------------------------------
(* The catalog *)

\* The dataclass Resource.
Resource(mapping) ==
    [details |-> mapping.details, cpu |-> mapping.cpu, memory |-> mapping.memory]

\* The value of get_resource's and get_alt_tier_resource's result when the
\* call returned nothing (it raised, or it was not made).
NoResource == [details |-> "", cpu |-> 0, memory |-> 0]

\* Python's range(start, stop, step): start, start+step, ... below stop.
PyRangeInclusive(start, stop, step) ==
    [k \in 1..((stop - start) \div step + 1) |-> start + (k - 1) * step]
PyRange(start, stop, step) ==
    [k \in 1..((stop - start + step - 1) \div step) |-> start + (k - 1) * step]

\* One comprehension of RESOURCES_MAPS:
\* [{"details": f"<cpu> vCPU, {i} GB", "cpu": cpu, "memory": i} for i in range(...)]
Band(cpu, memories) ==
    [k \in 1..Len(memories) |->
        [details |-> ToString(cpu) \o " vCPU, " \o ToString(memories[k]) \o " GB",
         cpu |-> cpu * Scale,
         memory |-> memories[k] * Scale]]

RESOURCES_MAPS ==
    << [details |-> "0.25 vCPU, 0.5 GB", cpu |-> Scale \div 4, memory |-> Scale \div 2],
       [details |-> "0.25 vCPU, 1 GB", cpu |-> Scale \div 4, memory |-> 1 * Scale],
       [details |-> "0.25 vCPU, 2 GB", cpu |-> Scale \div 4, memory |-> 2 * Scale],
       [details |-> "0.5 vCPU, 1 GB", cpu |-> Scale \div 2, memory |-> 1 * Scale],
       [details |-> "0.5 vCPU, 2 GB", cpu |-> Scale \div 2, memory |-> 2 * Scale],
       [details |-> "0.5 vCPU, 3 GB", cpu |-> Scale \div 2, memory |-> 3 * Scale],
       [details |-> "0.5 vCPU, 4 GB", cpu |-> Scale \div 2, memory |-> 4 * Scale] >>
    \o Band(1, PyRange(2, 9, 1))
    \o Band(2, PyRange(4, 17, 1))
    \o Band(4, PyRange(8, 31, 1))
    \o Band(8, PyRange(16, 61, 4))
    \o Band(16, PyRange(32, 121, 8))

\* RESOURCES = [Resource(**mapping) for mapping in RESOURCES_MAPS]
InitialResources == [k \in 1..Len(RESOURCES_MAPS) |-> Resource(RESOURCES_MAPS[k])]

InitialPrices == [per_vcpu |-> PER_VCPU_COST_PER_HOUR, per_gb |-> PER_GB_COST_PER_HOUR]

----------------------------------------------------------------------------
(* get_resource and get_alt_tier_resource *)

\* The test of get_resource's loop (fargate.py:84).
CoversStrictly(resource, total_cpu, total_memory) ==
    resource.cpu > total_cpu /\ resource.memory > total_memory
Covers(resource, total_cpu, total_memory) ==
    resource.cpu >= total_cpu /\ resource.memory >= total_memory

\* `for resource in RESOURCES: if <test>: return ...`: the index of the
\* resource the loop returns at, the first one that passes the test; 0 when
\* the loop runs off the end of the list.
LastMatch(resources, total_cpu, total_memory) ==
    IF \E i \in 1..Len(resources) : Covers(resources[i], total_cpu, total_memory)
    THEN CHOOSE i \in 1..Len(resources) :
            /\ Covers(resources[i], total_cpu, total_memory)
            /\ \A j \in (i + 1)..Len(resources) :
                    ~Covers(resources[j], total_cpu, total_memory)
    ELSE 0
FirstMatch(resources, total_cpu, total_memory) ==
    IF \E i \in 1..Len(resources) : Covers(resources[i], total_cpu, total_memory)
    THEN CHOOSE i \in 1..Len(resources) :
            /\ Covers(resources[i], total_cpu, total_memory)
            /\ \A j \in 1..(i - 1) : ~Covers(resources[j], total_cpu, total_memory)
    ELSE 0

\* Python's max(seq, key=...) on a non-empty list: the first element of the
\* list whose key is the largest key in it.
Largest(keys) == CHOOSE k \in keys : \A other \in keys : other <= k
Smallest(keys) == CHOOSE k \in keys : \A other \in keys : other >= k

\* max(candidate_resources, key=lambda x: x.memory) (fargate.py:106, 124)
MinByMemory(seq) ==
    LET best == Smallest({seq[i].memory : i \in 1..Len(seq)})
    IN  seq[CHOOSE i \in 1..Len(seq) :
                /\ seq[i].memory = best
                /\ \A j \in 1..(i - 1) : seq[j].memory # best]
MaxByMemory(seq) ==
    LET best == Largest({seq[i].memory : i \in 1..Len(seq)})
    IN  seq[CHOOSE i \in 1..Len(seq) :
                /\ seq[i].memory = best
                /\ \A j \in 1..(i - 1) : seq[j].memory # best]

\* max(candidate_resources, key=lambda x: x.cpu).cpu (fargate.py:115)
MinCpu(seq) ==
    LET best == Smallest({seq[i].cpu : i \in 1..Len(seq)})
    IN  seq[CHOOSE i \in 1..Len(seq) :
                /\ seq[i].cpu = best
                /\ \A j \in 1..(i - 1) : seq[j].cpu # best].cpu
MaxCpu(seq) ==
    LET best == Largest({seq[i].cpu : i \in 1..Len(seq)})
    IN  seq[CHOOSE i \in 1..Len(seq) :
                /\ seq[i].cpu = best
                /\ \A j \in 1..(i - 1) : seq[j].cpu # best].cpu

\* The list comprehension of the first branch (fargate.py:99-103).
SameCpuAbove(resources, total_cpu, total_memory) ==
    LET Test(resource) == resource.cpu = total_cpu /\ resource.memory > total_memory
    IN  SelectSeq(resources, Test)
SameCpuBelow(resources, total_cpu, total_memory) ==
    LET Test(resource) == resource.cpu = total_cpu /\ resource.memory < total_memory
    IN  SelectSeq(resources, Test)

\* The list comprehension of the second branch (fargate.py:110-112).
LowerCpu(resources, fargate_resource) ==
    LET Test(resource) == resource.cpu < fargate_resource.cpu
    IN  SelectSeq(resources, Test)

\* The list comprehension of the lower band (fargate.py:117-121).
LowerWindowClosed(resources, lower_cpu, total_memory) ==
    LET Test(resource) ==
            /\ resource.cpu = lower_cpu
            /\ -1 * Scale <= resource.memory - total_memory
            /\ resource.memory - total_memory <= 1 * Scale
    IN  SelectSeq(resources, Test)
LowerWindow(resources, lower_cpu, total_memory) ==
    LET Test(resource) ==
            /\ resource.cpu = lower_cpu
            /\ -1 * Scale < resource.memory - total_memory
            /\ resource.memory - total_memory < 1 * Scale
    IN  SelectSeq(resources, Test)

\* What a call returns: the value, or raised = TRUE (an exception left the
\* call) and no value.
Return(resource) == [raised |-> FALSE, value |-> resource]
Raise == [raised |-> TRUE, value |-> NoResource]

\* max() of a list the caller did not test for emptiness: Python raises
\* ValueError on an empty one.
PyMaxByMemory(seq) == IF Len(seq) = 0 THEN Raise ELSE Return(MaxByMemory(seq))

\* get_alt_tier_resource without its `if candidate_resources:` tests.
GetAltTierResourceUnguarded(resources, fargate_resource, total_cpu, total_memory) ==
    IF fargate_resource.cpu = total_cpu
    THEN PyMaxByMemory(SameCpuBelow(resources, total_cpu, total_memory))
    ELSE IF fargate_resource.cpu > total_cpu /\ fargate_resource.memory >= total_memory
    THEN LET candidate_resources == LowerCpu(resources, fargate_resource)
         IN  IF Len(candidate_resources) = 0 THEN Raise
             ELSE PyMaxByMemory(LowerWindow(resources, MaxCpu(candidate_resources),
                                            total_memory))
    ELSE Return(fargate_resource)
\* The two branches of get_alt_tier_resource and its final return.
AltTierBranches(resources, fargate_resource, total_cpu, total_memory) ==
    IF fargate_resource.cpu = total_cpu
    THEN LET candidate_resources == SameCpuBelow(resources, total_cpu, total_memory)
         IN  IF Len(candidate_resources) > 0
             THEN Return(MaxByMemory(candidate_resources))
             ELSE Return(fargate_resource)
    ELSE IF fargate_resource.cpu > total_cpu /\ fargate_resource.memory >= total_memory
    THEN LET candidate_resources == LowerCpu(resources, fargate_resource)
         IN  IF Len(candidate_resources) > 0
             THEN LET lower_cpu == MaxCpu(candidate_resources)
                      lower_candidate_resources ==
                          LowerWindow(resources, lower_cpu, total_memory)
                  IN  IF Len(lower_candidate_resources) > 0
                      THEN Return(MaxByMemory(lower_candidate_resources))
                      ELSE Return(fargate_resource)
             ELSE Return(fargate_resource)
    ELSE Return(fargate_resource)

\* A result kept from the call before and handed out again for a request of
\* the same cpu.
GetAltTierResourceStale(resources, fargate_resource, total_cpu, total_memory) ==
    IF call.op = "get_resource" /\ ~call.raised /\ call.total_cpu = total_cpu
    THEN Return(call.result)
    ELSE AltTierBranches(resources, fargate_resource, total_cpu, total_memory)
\* get_alt_tier_resource reads its arguments and RESOURCES, nothing else.
GetAltTierResource(resources, fargate_resource, total_cpu, total_memory) ==
    AltTierBranches(resources, fargate_resource, total_cpu, total_memory)

\* get_resource: what it returns, and the resource its loop stopped at
\* (NoResource when the loop ran off the end and the ValueError was raised).
GetResourceBestEffort(resources, total_cpu, total_memory, alt_tier) ==
    LET i == FirstMatch(resources, total_cpu, total_memory)
        resource == IF i = 0 THEN resources[Len(resources)] ELSE resources[i]
        out == IF alt_tier
               THEN GetAltTierResource(resources, resource, total_cpu, total_memory)
               ELSE Return(resource)
    IN  [raised |-> out.raised, resource |-> resource, result |-> out.value]
GetResource(resources, total_cpu, total_memory, alt_tier) ==
    LET i == FirstMatch(resources, total_cpu, total_memory)
    IN  IF i = 0
        THEN [raised |-> TRUE, resource |-> NoResource, result |-> NoResource]
        ELSE LET resource == resources[i]
                 out == IF alt_tier
                        THEN GetAltTierResource(resources, resource,
                                                total_cpu, total_memory)
                        ELSE Return(resource)
             IN  [raised |-> out.raised, resource |-> resource, result |-> out.value]

\* get_cost_per_day, in units of 10^-7 dollar.
GetCostPerDay(price, cpu, memory) ==
    (cpu * price.per_vcpu + memory * price.per_gb) * 24

----------------------------------------------------------------------------
(* The calls a client makes *)

CpuRequests ==
    {k * CPU_MEMORY_STEP : k \in 1..MaxCpuReq}
    \cup {Scale \div 10,
          8 * Scale, 8 * Scale + CPU_MEMORY_STEP, CPU_MAX, CPU_MAX + CPU_MEMORY_STEP}
MemoryRequests == {k * CPU_MEMORY_STEP : k \in 1..MaxMemReq}

\* The narrow request grid of SpecSeq: an exact cpu, a cpu between two
\* bands and a cpu no tier covers, with memories around a tier of band 1.
SeqCpuRequests == {1 * Scale, (3 * Scale) \div 2, CPU_MAX + CPU_MEMORY_STEP}
SeqMemoryRequests == {4 * Scale, 5 * Scale}

NoCall ==
    [op |-> "none", total_cpu |-> 0, total_memory |-> 0, alt_tier |-> FALSE,
     raised |-> FALSE, resource |-> NoResource, result |-> NoResource, cost |-> 0]

\* A client may make one more call while the calls already made fit in the
\* log: one call when capacity is 0, capacity + 1 calls otherwise.
MayCall(capacity) == call.op = "none" \/ Len(log) < capacity

\* The log after one more call: the call just superseded joins it.
Remember == IF call.op = "none" THEN log ELSE Append(log, call)

Init ==
    /\ RESOURCES = InitialResources
    /\ prices = InitialPrices
    /\ call = NoCall
    /\ log = << >>

\* get_resource(total_cpu, total_memory, alt_tier)
GetResourceCall(cpus, memories, capacity) ==
    /\ MayCall(capacity)
    /\ \E total_cpu \in cpus, total_memory \in memories, alt_tier \in BOOLEAN :
        LET out == GetResource(RESOURCES, total_cpu, total_memory, alt_tier)
        IN  /\ call' = [op |-> "get_resource",
                        total_cpu |-> total_cpu, total_memory |-> total_memory,
                        alt_tier |-> alt_tier, raised |-> out.raised,
                        resource |-> out.resource, result |-> out.result,
                        cost |-> 0]
            /\ log' = Remember
            /\ UNCHANGED <<RESOURCES, prices>>

\* get_cost_per_day(cpu, memory), the caller passing a tier's cpu and memory
GetCostPerDayCall(tiers, capacity) ==
    /\ MayCall(capacity)
    /\ \E i \in tiers :
        /\ call' = [op |-> "get_cost_per_day",
                    total_cpu |-> RESOURCES[i].cpu,
                    total_memory |-> RESOURCES[i].memory,
                    alt_tier |-> FALSE, raised |-> FALSE,
                    resource |-> NoResource, result |-> NoResource,
                    cost |-> GetCostPerDay(prices, RESOURCES[i].cpu,
                                           RESOURCES[i].memory)]
        /\ log' = Remember
        /\ UNCHANGED <<RESOURCES, prices>>

\* Single calls over the whole request grid.
Next ==
    \/ GetResourceCall(CpuRequests, MemoryRequests, 0)
    \/ GetCostPerDayCall(1..Len(RESOURCES), 0)

Spec == Init /\ [][Next]_vars

\* Sequences of calls over the narrow grid, the earlier calls remembered.
SeqCostTiers ==
    {i \in 1..Len(RESOURCES) :
        RESOURCES[i].cpu = 1 * Scale /\ RESOURCES[i].memory <= 3 * Scale}

NextSeq ==
    \/ GetResourceCall(SeqCpuRequests, SeqMemoryRequests, MaxCalls)
    \/ GetCostPerDayCall(SeqCostTiers, MaxCalls)

SpecSeq == Init /\ [][NextSeq]_vars

----------------------------------------------------------------------------
(* Properties *)

Catalog == {RESOURCES[i] : i \in 1..Len(RESOURCES)}

Tier(cpu, memory) ==
    CHOOSE t \in Catalog : t.cpu = cpu /\ t.memory = memory

\* The call last made is select_minimal: get_resource(cpu, memory).
IsSelectMinimal == call.op = "get_resource" /\ ~call.alt_tier
\* The call last made is get_resource(cpu, memory, alt_tier=True):
\* select_minimal, then select_alternate on the tier it found.
IsSelectAlternate == call.op = "get_resource" /\ call.alt_tier

\* Some tier of the catalog covers the request of the call last made.
Coverable ==
    \E t \in Catalog : t.cpu >= call.total_cpu /\ t.memory >= call.total_memory

\* The tiers case 1 of select_alternate chooses among.
BelowInBand ==
    {t \in Catalog : t.cpu = call.total_cpu /\ t.memory < call.total_memory}

\* The cpu values of the catalog strictly below the primary tier's.
LowerCpus ==
    {RESOURCES[i].cpu : i \in {j \in 1..Len(RESOURCES) :
                                    RESOURCES[j].cpu < call.resource.cpu}}
NextLowerCpu == CHOOSE c \in LowerCpus : \A d \in LowerCpus : d <= c

\* The tiers case 2 of select_alternate chooses among.
InWindow ==
    IF LowerCpus = {} THEN {}
    ELSE LET band == NextLowerCpu
         IN  {t \in Catalog :
                /\ t.cpu = band
                /\ -1 * Scale < t.memory - call.total_memory
                /\ t.memory - call.total_memory < 1 * Scale}

IsCase1 == call.resource.cpu = call.total_cpu
IsCase2 ==
    /\ call.resource.cpu > call.total_cpu
    /\ call.resource.memory >= call.total_memory

\* C1: for 0 < cpu_req <= 16 and 0 < memory_req <= 120, select_minimal
\* returns a catalog tier with cpu >= cpu_req and memory >= memory_req, and
\* no tier earlier in the catalog satisfies both inequalities.
C1_MinimalIsFirstCovering ==
    ( /\ IsSelectMinimal
      /\ 0 < call.total_cpu /\ call.total_cpu <= 16 * Scale
      /\ 0 < call.total_memory /\ call.total_memory <= 120 * Scale )
    => /\ ~call.raised
       /\ call.result.cpu - call.total_cpu >= 0
       /\ call.result.memory - call.total_memory >= 0
       /\ \E i \in 1..Len(RESOURCES) :
            /\ RESOURCES[i] = call.result
            /\ \A j \in 1..(i - 1) :
                ~(/\ RESOURCES[j].cpu >= call.total_cpu
                  /\ RESOURCES[j].memory >= call.total_memory)

\* select_minimal(2.0, 3.75) returned {cpu 2, memory 4}.
C1_Witness ==
    /\ IsSelectMinimal
    /\ call.total_cpu = 2 * Scale
    /\ call.total_memory = 15 * CPU_MEMORY_STEP
    /\ call.result = Tier(2 * Scale, 4 * Scale)

\* C2: get_resource raises exactly when no catalog tier covers the request,
\* that is when cpu_req > 16 or memory_req > 120; it then returns no tier,
\* whether or not alt_tier is set.
C2_RaisesIffExceeded ==
    call.op = "get_resource"
    => /\ call.raised <=> ~Coverable
       /\ call.raised <=>
            (call.total_cpu > 16 * Scale \/ call.total_memory > 120 * Scale)
       /\ call.raised => call.result = NoResource /\ call.resource = NoResource
       /\ ~call.raised => call.result \in Catalog

\* get_resource(1, 120.25, alt_tier=True) raised.
C2_Witness ==
    /\ IsSelectAlternate
    /\ call.total_cpu = 1 * Scale
    /\ call.total_memory = 120 * Scale + CPU_MEMORY_STEP
    /\ call.raised

\* The band table of the catalog, as (cpu, memory) pairs.
BandTable ==
    {<<Scale \div 4, m>> : m \in {Scale \div 2, 1 * Scale, 2 * Scale}}
    \cup {<<Scale \div 2, m * Scale>> : m \in 1..4}
    \cup {<<1 * Scale, m * Scale>> : m \in 2..8}
    \cup {<<2 * Scale, m * Scale>> : m \in 4..16}
    \cup {<<4 * Scale, m * Scale>> : m \in 8..30}
    \cup {<<8 * Scale, m * Scale>> : m \in {n \in 16..60 : (n - 16) % 4 = 0}}
    \cup {<<16 * Scale, m * Scale>> : m \in {n \in 32..120 : (n - 32) % 8 = 0}}

\* C3: RESOURCES holds exactly the pairs of the band table, in table order:
\* non-decreasing in (cpu, memory) lexicographic order, no pair twice.
C3_CatalogIsBandTable ==
    /\ {<<RESOURCES[i].cpu, RESOURCES[i].memory>> : i \in 1..Len(RESOURCES)} = BandTable
    /\ \A i \in 1..(Len(RESOURCES) - 1) :
        \/ RESOURCES[i].cpu < RESOURCES[i + 1].cpu
        \/ /\ RESOURCES[i].cpu = RESOURCES[i + 1].cpu
           /\ RESOURCES[i].memory <= RESOURCES[i + 1].memory
    /\ Cardinality({<<RESOURCES[i].cpu, RESOURCES[i].memory>> : i \in 1..Len(RESOURCES)})
        = Len(RESOURCES)

\* The catalog as constructed: from {0.25, 0.5} to {16, 120}, read by a call.
C3_Witness ==
    /\ call.op = "get_resource"
    /\ RESOURCES[1].cpu = Scale \div 4 /\ RESOURCES[1].memory = Scale \div 2
    /\ RESOURCES[Len(RESOURCES)].cpu = 16 * Scale
    /\ RESOURCES[Len(RESOURCES)].memory = 120 * Scale
    /\ RESOURCES[Len(RESOURCES)].details = "16 vCPU, 120 GB"

\* C4: the tier select_minimal returns has the smallest cpu among the tiers
\* covering the request and, among the covering tiers with that cpu, the
\* smallest memory.
C4_MinimalIsSmallestCpuThenMemory ==
    (IsSelectMinimal /\ Coverable)
    => /\ ~call.raised
       /\ \A t \in Catalog :
            (t.cpu >= call.total_cpu /\ t.memory >= call.total_memory)
            => /\ call.result.cpu <= t.cpu
               /\ t.cpu = call.result.cpu => call.result.memory <= t.memory

\* select_minimal(0.5, 4.25) returned {cpu 1, memory 5}: band 0.5 ends at 4.
C4_Witness ==
    /\ IsSelectMinimal
    /\ call.total_cpu = Scale \div 2
    /\ call.total_memory = 17 * CPU_MEMORY_STEP
    /\ call.result = Tier(1 * Scale, 5 * Scale)

\* C5: case 1.  When primary.cpu = cpu_req and the catalog has a tier of that
\* cpu with memory < memory_req, select_alternate returns the one of them
\* with the largest memory, whose memory is below memory_req.
C5_Case1LargestBelow ==
    (IsSelectAlternate /\ Coverable /\ IsCase1 /\ BelowInBand # {})
    => /\ ~call.raised
       /\ call.result \in BelowInBand
       /\ \A t \in BelowInBand : t.memory <= call.result.memory
       /\ call.result.memory < call.total_memory

\* Request (1.0, 4.0), primary {cpu 1, memory 4}, alternate {cpu 1, memory 3}.
C5_Witness ==
    /\ IsSelectAlternate
    /\ call.total_cpu = 1 * Scale /\ call.total_memory = 4 * Scale
    /\ call.resource = Tier(1 * Scale, 4 * Scale)
    /\ call.result = Tier(1 * Scale, 3 * Scale)

\* C6: case 2.  When primary.cpu > cpu_req and primary.memory >= memory_req,
\* select_alternate looks only at the largest catalog cpu below primary.cpu:
\* if that band has tiers with -1 < memory - memory_req < 1 it returns the one
\* of them with the largest memory, and it returns no tier of another band.
C6_Case2NextLowerBandWindow ==
    (IsSelectAlternate /\ Coverable /\ IsCase2)
    => LET window == InWindow
       IN  /\ ~call.raised
           /\ window # {}
                => /\ call.result \in window
                   /\ \A t \in window : t.memory <= call.result.memory
           /\ call.result # call.resource
                => /\ LowerCpus # {}
                   /\ call.result.cpu = NextLowerCpu

\* Request (1.5, 5), primary {cpu 2, memory 5}, alternate {cpu 1, memory 5}.
C6_Witness ==
    /\ IsSelectAlternate
    /\ call.total_cpu = 6 * CPU_MEMORY_STEP /\ call.total_memory = 5 * Scale
    /\ call.resource = Tier(2 * Scale, 5 * Scale)
    /\ call.result = Tier(1 * Scale, 5 * Scale)

\* Neither case of select_alternate has a candidate.
NoCandidate ==
    \/ IsCase1 /\ BelowInBand = {}
    \/ IsCase2 /\ InWindow = {}
    \/ ~IsCase1 /\ ~IsCase2

\* C7: select_alternate never raises; when neither case yields a candidate it
\* returns the primary tier itself; what it returns is a tier of the catalog.
C7_AlternateTotalFallsBack ==
    (IsSelectAlternate /\ Coverable)
    => /\ ~call.raised
       /\ call.result \in Catalog
       /\ NoCandidate => call.result = call.resource

\* Request (0.1, 0.5): the primary {cpu 0.25, memory 0.5} is of the smallest
\* band, case 2 finds no lower cpu and the primary is returned.
C7_Witness ==
    /\ IsSelectAlternate
    /\ call.total_cpu = Scale \div 10 /\ call.total_memory = Scale \div 2
    /\ IsCase2 /\ LowerCpus = {}
    /\ call.resource = Tier(Scale \div 4, Scale \div 2)
    /\ call.result = call.resource

\* C8: an alternate that differs from the primary costs strictly less a day,
\* the cost of a day being (cpu * 0.05056 + memory * 0.00553) * 24.
C8_AlternateCheaper ==
    /\ (IsSelectAlternate /\ Coverable)
        => /\ GetCostPerDay(prices, call.result.cpu, call.result.memory)
                <= GetCostPerDay(prices, call.resource.cpu, call.resource.memory)
           /\ call.result # call.resource
                => (call.result.cpu * 5056 + call.result.memory * 553) * 24
                    < (call.resource.cpu * 5056 + call.resource.memory * 553) * 24
    /\ call.op = "get_cost_per_day"
        => call.cost = (call.total_cpu * 5056 + call.total_memory * 553) * 24

\* Request (1.5, 5): {cpu 1, memory 5} replaces {cpu 2, memory 5}.
C8_Witness ==
    /\ IsSelectAlternate
    /\ call.total_cpu = 6 * CPU_MEMORY_STEP /\ call.total_memory = 5 * Scale
    /\ call.result # call.resource
    /\ GetCostPerDay(prices, call.result.cpu, call.result.memory)
        < GetCostPerDay(prices, call.resource.cpu, call.resource.memory)

\* The calls made so far, oldest first.
Calls == IF call.op = "none" THEN log ELSE Append(log, call)

C10_AlternateUnderProvisions ==
    (IsSelectAlternate /\ Coverable)
    => /\ call.result.cpu <= call.resource.cpu
       /\ call.result # call.resource
            => \/ call.result.cpu < call.total_cpu
               \/ call.result.memory < call.total_memory
       /\ IsCase2 => call.total_memory - call.result.memory < 1 * Scale

\* Request (1.5, 8.75): case 2 returns {cpu 1, memory 8} for the primary
\* {cpu 2, memory 9}, short of the request by 0.5 cpu and 0.75 memory.
C10_Witness ==
    /\ IsSelectAlternate
    /\ call.total_cpu = 6 * CPU_MEMORY_STEP /\ call.total_memory = 35 * CPU_MEMORY_STEP
    /\ IsCase2
    /\ call.resource = Tier(2 * Scale, 9 * Scale)
    /\ call.result = Tier(1 * Scale, 8 * Scale)

====
